---- MODULE Spec2Model ----
(***************************************************************************)
(* State machine of the voice-session engine: GeminiLiveClient             *)
(* (src/unnamed/part_000) and the transcript aggregator that App installs  *)
(* as the client's onMessage handler (src/unnamed/part_001).               *)
(*                                                                         *)
(* Times (AudioContext.currentTime, nextStartTime, AudioBuffer.duration)   *)
(* are floating-point seconds in the source; they are modelled as natural  *)
(* numbers of one time unit.  The Message fields id and timestamp are not  *)
(* read by any handler and are left out of the records.                    *)
(***************************************************************************)
EXTENDS Naturals, Sequences, FiniteSets, TLC

\* ------------------------------------------------------------------ bounds
\* inbound messages of one run of the playback specification
MaxInbound == 3
\* inbound messages of one run of the transcript specification
MaxFragments == 4
\* inbound messages of one run of the lifecycle specification
MaxTraffic == 1
\* largest value of the output device clock
MaxClock == 3
\* longest decoded chunk, in time units
MaxDuration == 2
\* connect() calls of one run of the lifecycle specification
MaxConnects == 2
\* connect() calls of one run of the capture specification, and the number
\* of live sessions a client can ever have requested
MaxSessions == 3
\* buffers the audio thread delivers in one run of the capture specification
MaxFrames == 2

\* ------------------------------------------------------------- vocabulary
\* a field of the client that holds no object
NULL == 0

UserFragments == {"he", "llo"}
AgentFragments == {"hi"}

\* An optional field of an inbound message is <<>> when absent and <<v>>
\* when present.
Absent == <<>>
Present(v) == <<v>>
IsPresent(f) == Len(f) > 0
ValueOf(f) == f[1]

\* An audio payload: whether it decodes, and the duration of the decoded buffer.
AudioPayloads ==
    {[decodes |-> TRUE, duration |-> d] : d \in 1..MaxDuration}
        \cup {[decodes |-> FALSE, duration |-> 0]}

\* LiveServerMessage.serverContent, the fields handleMessage reads.
ServerMessages(outs, ins, turns, audios, ints) ==
    [outputTranscription : outs, inputTranscription : ins,
     turnComplete : turns, audio : audios, interrupted : ints]

\* messages that carry audio and interruption flags only
PlaybackInputs ==
    ServerMessages({Absent}, {Absent}, {FALSE},
                   {Absent} \cup {Present(a) : a \in AudioPayloads}, BOOLEAN)

\* messages that carry transcript fields only
TranscriptInputs ==
    ServerMessages({Absent} \cup {Present(t) : t \in AgentFragments},
                   {Absent} \cup {Present(t) : t \in UserFragments},
                   BOOLEAN, {Absent}, {FALSE})

\* the traffic of the lifecycle specification
TrafficInputs ==
    ServerMessages({Absent}, {Absent}, {FALSE},
                   {Present([decodes |-> TRUE, duration |-> 1])}, BOOLEAN)

\* the traffic of the whole-client specification
ClientInputs ==
    TrafficInputs
        \cup ServerMessages({Absent}, {Present("hi")}, {TRUE},
                            {Present([decodes |-> FALSE, duration |-> 0])}, {FALSE})

\* ------------------------------------------------------- session config
\* CoachMode and RoleplayScenario; a LiveConfig may leave its scenario out.
Modes == {"PRONUNCIATION", "ROLEPLAY", "FREE_TALK"}
Scenarios == {"RESTAURANT", "DIRECTIONS", "INTERVIEW", "NONE"}
Unspecified == "undefined"
Voices == {"Puck", "Kore"}

Configs == [mode : Modes, scenario : Scenarios \cup {Unspecified}, voiceName : Voices]

\* the config App holds before the setup screen has changed it
DefaultConfig == [mode |-> "FREE_TALK", scenario |-> Unspecified, voiceName |-> "Puck"]

\* The instruction text is a sequence of the string literals that connect()
\* puts together, each literal named by its opening words.
\* a switch on the scenario in which every case takes the default text
scenarioContextDefaultOnly(scenario) == "Pick a common real-world scenario"

\* the switch on config.scenario
scenarioContext(scenario) ==
    CASE scenario = "RESTAURANT" -> "You are a waiter"
      [] scenario = "DIRECTIONS" -> "You are a friendly local"
      [] scenario = "INTERVIEW" -> "You are a hiring manager"
      [] OTHER -> "Pick a common real-world scenario"

\* an instruction that puts the scenario text into every mode
systemInstructionWithScenario(config) ==
    IF config.mode = "PRONUNCIATION"
    THEN <<"You are a strict but encouraging Pronunciation Coach",
           scenarioContext(config.scenario)>>
    ELSE IF config.mode = "ROLEPLAY"
         THEN <<"Act as a roleplay partner", scenarioContext(config.scenario),
                "Stay in character at all times",
                "Keep the conversation flowing naturally">>
         ELSE <<"You are a friendly and helpful English language coach",
                scenarioContext(config.scenario)>>

\* the system instruction that connect(config) builds
systemInstruction(config) ==
    IF config.mode = "PRONUNCIATION"
    THEN <<"You are a strict but encouraging Pronunciation Coach">>
    ELSE IF config.mode = "ROLEPLAY"
         THEN <<"Act as a roleplay partner", scenarioContext(config.scenario),
                "Stay in character at all times",
                "Keep the conversation flowing naturally">>
         ELSE <<"You are a friendly and helpful English language coach",
                "Engage in free-flowing conversation">>

VARIABLES
    \* GeminiLiveClient fields
    inputAudioContext, outputAudioContext, mediaStream, processor, source,
    nextStartTime, isConnected, sessionPromise, activeSources,
    \* App state
    messages, activeStep,
    \* the config of each connect() call and the instruction it sent
    configOf, instructionOf,
    \* environment: device clock, awaits in flight, transport, devices
    currentTime, decoding, ended, received,
    connectCalls, awaitingMic, transport, closeQueued, liveTracks, openContexts,
    \* environment: buffers of the capture node, sends waiting on a session promise
    captured, audioProcessPending, sendQueued,
    \* history of calls made on playback sources, and of the operations
    started, stopped, lastInterrupt, justDisconnected,
    \* history of calls made on the session and on the UI's event handlers
    sent, disconnected, emitted, errors, heldAtReport

clientVars ==
    <<inputAudioContext, outputAudioContext, mediaStream, processor, source,
      nextStartTime, isConnected, sessionPromise, activeSources>>

envVars ==
    <<currentTime, decoding, ended, received, connectCalls, awaitingMic,
      transport, closeQueued, liveTracks, openContexts>>

historyVars == <<started, stopped, lastInterrupt, justDisconnected>>

captureVars == <<captured, audioProcessPending, sendQueued>>

eventVars == <<sent, disconnected, emitted, errors, heldAtReport>>

requestVars == <<configOf, instructionOf>>

vars ==
    <<clientVars, messages, activeStep, requestVars, envVars, historyVars,
      captureVars, eventVars>>

\* -------------------------------------------------- transcript aggregator
RoleOf(isUser) == IF isUser THEN "user" ELSE "model"

\* onMessage without the role test: the text goes to any open last record.
onMessageAnyRole(prev, text, isUser, isComplete) ==
    LET n == Len(prev)
    IN  IF n > 0 /\ ~prev[n].isComplete
        THEN [prev EXCEPT ![n] =
                 [role |-> prev[n].role,
                  text |-> prev[n].text \o text,
                  isComplete |-> IF isComplete THEN TRUE ELSE prev[n].isComplete]]
        ELSE Append(prev, [role |-> RoleOf(isUser), text |-> text,
                           isComplete |-> isComplete])

\* onMessage without the completeness test: the text goes to the last record
\* of the same role, sealed or not.
onMessageReopens(prev, text, isUser, isComplete) ==
    LET n == Len(prev)
        isSameRole == n > 0 /\ prev[n].role = RoleOf(isUser)
    IN  IF isSameRole
        THEN [prev EXCEPT ![n] =
                 [role |-> prev[n].role,
                  text |-> prev[n].text \o text,
                  isComplete |-> IF isComplete THEN TRUE ELSE prev[n].isComplete]]
        ELSE Append(prev, [role |-> RoleOf(isUser), text |-> text,
                           isComplete |-> isComplete])

\* The updater that onMessage hands to setMessages.
onMessage(prev, text, isUser, isComplete) ==
    LET n == Len(prev)
        isSameRole == n > 0 /\ prev[n].role = RoleOf(isUser)
    IN  IF isSameRole /\ ~prev[n].isComplete
        THEN [prev EXCEPT ![n] =
                 [role |-> prev[n].role,
                  text |-> prev[n].text \o text,
                  isComplete |-> IF isComplete THEN TRUE ELSE prev[n].isComplete]]
        ELSE Append(prev, [role |-> RoleOf(isUser), text |-> text,
                           isComplete |-> isComplete])

\* handleMessage, step 1: the transcription event of a message, if any.
routeTranscription(prev, m) ==
    IF IsPresent(m.outputTranscription)
    THEN onMessage(prev, ValueOf(m.outputTranscription), FALSE, FALSE)
    ELSE IF IsPresent(m.inputTranscription)
         THEN onMessage(prev, ValueOf(m.inputTranscription), TRUE, FALSE)
         ELSE prev

\* handleMessage, the turn-complete event of a message, if any.
routeTurnComplete(prev, m) ==
    IF m.turnComplete THEN onMessage(prev, "", FALSE, TRUE) ELSE prev

\* ------------------------------------------------------ playback scheduler
\* The scheduler's state as one value, so that the steps of a handler compose.
Playback ==
    [nextStartTime |-> nextStartTime, activeSources |-> activeSources,
     decoding |-> decoding, started |-> started, stopped |-> stopped,
     lastInterrupt |-> lastInterrupt]

SetPlayback(p) ==
    /\ nextStartTime' = p.nextStartTime
    /\ activeSources' = p.activeSources
    /\ decoding' = p.decoding
    /\ started' = p.started
    /\ stopped' = p.stopped
    /\ lastInterrupt' = p.lastInterrupt

\* playAudioChunk up to its await: chunk n is handed to decodeAudioData.  A
\* payload that base64ToUint8Array or decodeAudioData refuses is dropped by the
\* catch block when the call resumes (DecodeRejected).
playAudioChunk(p, ctx, n, payload) ==
    IF ctx = NULL
    THEN p
    ELSE [p EXCEPT !.decoding =
             @ \cup {[chunk |-> n, decodes |-> payload.decodes,
                      duration |-> payload.duration]}]

\* startTime without the timeline: every chunk starts at the current clock.
startTimeNow(next, now) == now

\* startTime without the catch-up: the chunk starts at nextStartTime even
\* when the clock is past it.
startTimeNoCatchUp(next, now) == next

\* "Ensure gapless playback": the time handed to source.start.
startTime(next, now) == IF next < now THEN now ELSE next

\* scheduleChunk with nextStartTime set to the duration instead of advanced by it
scheduleChunkRestarts(p, d, now) ==
    LET when == startTime(p.nextStartTime, now)
    IN  [p EXCEPT
           !.decoding = @ \ {d},
           !.started = Append(@, [chunk |-> d.chunk, when |-> when,
                                  duration |-> d.duration, now |-> now,
                                  after |-> p.lastInterrupt]),
           !.nextStartTime = d.duration,
           !.activeSources = @ \cup {d.chunk}]

\* playAudioChunk after its await, for a buffer that decoded.
scheduleChunk(p, d, now) ==
    LET when == startTime(p.nextStartTime, now)
    IN  [p EXCEPT
           !.decoding = @ \ {d},
           !.started = Append(@, [chunk |-> d.chunk, when |-> when,
                                  duration |-> d.duration, now |-> now,
                                  after |-> p.lastInterrupt]),
           !.nextStartTime = when + d.duration,
           !.activeSources = @ \cup {d.chunk}]

\* handleAudio with a decode that completes inside the call: the chunk is
\* scheduled before the handler goes on to its interruption step.
handleAudioDecodedInline(p, ctx, n, m) ==
    IF IsPresent(m.audio) /\ ctx # NULL /\ ValueOf(m.audio).decodes
    THEN scheduleChunk(p, [chunk |-> n, decodes |-> TRUE,
                           duration |-> ValueOf(m.audio).duration], currentTime)
    ELSE p

\* handleMessage, step 2
handleAudio(p, ctx, n, m) ==
    IF IsPresent(m.audio) /\ ctx # NULL
    THEN playAudioChunk(p, ctx, n, ValueOf(m.audio))
    ELSE p

\* handleInterruption without the reset of the timeline
handleInterruptionKeepsTimeline(p, n, m) ==
    IF m.interrupted
    THEN [p EXCEPT
            !.stopped = @ \cup {[chunk |-> c, by |-> n] : c \in p.activeSources},
            !.activeSources = {},
            !.lastInterrupt = n]
    ELSE p

\* handleMessage, step 3: message n carries the interrupted flag.
handleInterruption(p, n, m) ==
    IF m.interrupted
    THEN [p EXCEPT
            !.stopped = @ \cup {[chunk |-> c, by |-> n] : c \in p.activeSources},
            !.activeSources = {},
            !.nextStartTime = 0,
            !.lastInterrupt = n]
    ELSE p

\* ------------------------------------------------------------------ states
\* transport[n] is the state of the live session that connect() number n
\* requested: "none" before ai.live.connect, "connecting" until its onopen,
\* "open", "closing" once session.close() was called, "failed" after its
\* onerror, "closed" after its onclose.  The session promise of a session
\* resolves once the session has opened.
\* The state after construction.  App constructs the client in
\* handleStartSession, after it has set activeStep to 'session'.
Init ==
    /\ inputAudioContext = NULL /\ outputAudioContext = NULL
    /\ mediaStream = NULL /\ processor = NULL /\ source = NULL
    /\ nextStartTime = 0 /\ isConnected = FALSE
    /\ sessionPromise = NULL /\ activeSources = {}
    /\ messages = <<>>
    /\ currentTime = 0 /\ decoding = {} /\ ended = {} /\ received = <<>>
    /\ connectCalls = 0 /\ awaitingMic = {}
    /\ transport = [n \in 1..MaxSessions |-> "none"]
    /\ closeQueued = {} /\ liveTracks = {} /\ openContexts = {}
    /\ started = <<>> /\ stopped = {} /\ lastInterrupt = 0
    /\ justDisconnected = FALSE
    /\ captured = 0 /\ audioProcessPending = 0 /\ sendQueued = <<>>
    /\ sent = <<>> /\ disconnected = FALSE /\ emitted = {}
    /\ errors = [n \in 1..MaxSessions |-> 0] /\ heldAtReport = FALSE
    /\ activeStep = "session"
    /\ configOf = [n \in 1..MaxSessions |-> Absent]
    /\ instructionOf = [n \in 1..MaxSessions |-> <<>>]

\* The state after connect(), the microphone grant and the transport's onopen.
InitOpen ==
    /\ inputAudioContext = 1 /\ outputAudioContext = 1
    /\ mediaStream = 1 /\ processor = 1 /\ source = 1
    /\ nextStartTime = 0 /\ isConnected = TRUE
    /\ sessionPromise = 1 /\ activeSources = {}
    /\ messages = <<>>
    /\ currentTime = 0 /\ decoding = {} /\ ended = {} /\ received = <<>>
    /\ connectCalls = 1 /\ awaitingMic = {}
    /\ transport = [n \in 1..MaxSessions |-> IF n = 1 THEN "open" ELSE "none"]
    /\ closeQueued = {} /\ liveTracks = {1}
    /\ openContexts = {<<"in", 1>>, <<"out", 1>>}
    /\ started = <<>> /\ stopped = {} /\ lastInterrupt = 0
    /\ justDisconnected = FALSE
    /\ captured = 0 /\ audioProcessPending = 0 /\ sendQueued = <<>>
    /\ sent = <<>> /\ disconnected = FALSE /\ emitted = {"onOpen"}
    /\ errors = [n \in 1..MaxSessions |-> 0] /\ heldAtReport = FALSE
    /\ activeStep = "session"
    /\ configOf = [n \in 1..MaxSessions |->
                      IF n = 1 THEN Present(DefaultConfig) ELSE Absent]
    /\ instructionOf = [n \in 1..MaxSessions |->
                           IF n = 1 THEN systemInstruction(DefaultConfig) ELSE <<>>]

\* ----------------------------------------------------------------- client
\* The session promise of session n has resolved.
Resolved(n) == transport[n] \in {"open", "closing", "closed"}

\* A device or a node that connect() acquired is still in use.
Held ==
    \/ liveTracks # {} \/ openContexts # {}
    \/ processor # NULL \/ source # NULL

\* events.onError is called for session n, before the cleanup() that follows
\* it in the handler: the UI is told while what was acquired is as it was,
\* and App's handler goes back to the setup screen.
reportError(n) ==
    /\ emitted' = {"onError"}
    /\ errors' = [errors EXCEPT ![n] = @ + 1]
    /\ heldAtReport' = Held
    /\ activeStep' = "setup"

\* cleanup(): release what the fields hold and reset the timeline.  The sends
\* that wait on a session promise stay where they are; each is marked as
\* having been queued before a cleanup.
cleanup ==
    /\ isConnected' = FALSE
    /\ liveTracks' = liveTracks \ {mediaStream}
    /\ mediaStream' = NULL
    /\ processor' = NULL
    /\ source' = NULL
    /\ openContexts' =
           openContexts \ {<<"in", inputAudioContext>>, <<"out", outputAudioContext>>}
    /\ inputAudioContext' = NULL
    /\ outputAudioContext' = NULL
    /\ activeSources' = {}
    /\ nextStartTime' = 0
    /\ sendQueued' = [i \in DOMAIN sendQueued |->
                         [sendQueued[i] EXCEPT !.cleaned = TRUE]]

\* connect(config) up to its await of getUserMedia.
Connect(config) ==
    /\ connectCalls < MaxSessions
    /\ connectCalls' = connectCalls + 1
    /\ justDisconnected' = FALSE
    /\ IF isConnected
       THEN UNCHANGED <<inputAudioContext, outputAudioContext, openContexts,
                        awaitingMic, currentTime, configOf>>
       ELSE /\ inputAudioContext' = connectCalls + 1
            /\ outputAudioContext' = connectCalls + 1
            /\ openContexts' = openContexts \cup {<<"in", connectCalls + 1>>,
                                                  <<"out", connectCalls + 1>>}
            /\ awaitingMic' = awaitingMic \cup {connectCalls + 1}
            /\ configOf' = [configOf EXCEPT ![connectCalls + 1] = Present(config)]
            /\ currentTime' = 0
    /\ UNCHANGED <<mediaStream, processor, source, nextStartTime, isConnected,
                   sessionPromise, activeSources, messages, decoding, ended,
                   received, transport, closeQueued, liveTracks,
                   started, stopped, lastInterrupt>>
    /\ disconnected' = FALSE
    /\ emitted' = {}
    /\ heldAtReport' = FALSE
    /\ UNCHANGED <<captureVars, sent, errors>>
    /\ UNCHANGED <<instructionOf, activeStep>>

\* connect() after getUserMedia resolved: the stream is kept and the live
\* session is requested.
GetUserMediaResolved(n) ==
    /\ n \in awaitingMic
    /\ awaitingMic' = awaitingMic \ {n}
    /\ mediaStream' = n
    /\ liveTracks' = liveTracks \cup {n}
    /\ sessionPromise' = n
    /\ transport' = [transport EXCEPT ![n] = "connecting"]
    /\ justDisconnected' = FALSE
    /\ UNCHANGED <<inputAudioContext, outputAudioContext, processor, source,
                   nextStartTime, isConnected, activeSources, messages,
                   currentTime, decoding, ended, received, connectCalls,
                   closeQueued, openContexts,
                   started, stopped, lastInterrupt>>
    /\ emitted' = {}
    /\ heldAtReport' = FALSE
    /\ UNCHANGED <<captureVars, sent, disconnected, errors>>
    /\ instructionOf' =
           [instructionOf EXCEPT ![n] = systemInstruction(ValueOf(configOf[n]))]
    /\ UNCHANGED <<configOf, activeStep>>

\* connect() after getUserMedia rejected: the catch block.
GetUserMediaRejected(n) ==
    /\ n \in awaitingMic
    /\ awaitingMic' = awaitingMic \ {n}
    /\ cleanup
    /\ justDisconnected' = FALSE
    /\ UNCHANGED <<sessionPromise, messages, currentTime, decoding, ended,
                   received, connectCalls, transport, closeQueued,
                   started, stopped, lastInterrupt>>
    /\ reportError(n)
    /\ UNCHANGED <<captured, audioProcessPending, sent, disconnected>>
    /\ UNCHANGED requestVars

\* startAudioInput(), called by onopen.
startAudioInput ==
    IF inputAudioContext = NULL \/ mediaStream = NULL
    THEN UNCHANGED <<source, processor>>
    ELSE /\ source' = inputAudioContext
         /\ processor' = inputAudioContext

\* The sends that wait on the session promise of session n.
queuedOn(n) == {i \in DOMAIN sendQueued : sendQueued[i].session = n}

\* The session promise of session n resolves: the sends that wait on it call
\* session.sendRealtimeInput in the order in which they were put there.
sendRealtimeInput(n) ==
    /\ sent' = sent \o SelectSeq(sendQueued, LAMBDA q : q.session = n)
    /\ sendQueued' = SelectSeq(sendQueued, LAMBDA q : q.session # n)

\* callbacks.onopen of session n.  The promise that ai.live.connect returned
\* resolves in the task that called onopen, before any other callback runs.
OnOpen(n) ==
    /\ transport[n] = "connecting"
    /\ sendRealtimeInput(n)
    /\ transport' = [transport EXCEPT ![n] = "open"]
    /\ isConnected' = TRUE
    /\ startAudioInput
    /\ justDisconnected' = FALSE
    /\ UNCHANGED <<inputAudioContext, outputAudioContext, mediaStream,
                   nextStartTime, sessionPromise, activeSources, messages,
                   currentTime, decoding, ended, received, connectCalls,
                   awaitingMic, closeQueued, liveTracks, openContexts,
                   started, stopped, lastInterrupt>>
    /\ emitted' = {"onOpen"}
    /\ heldAtReport' = FALSE
    /\ UNCHANGED <<captured, audioProcessPending, disconnected, errors>>
    /\ UNCHANGED <<requestVars, activeStep>>

\* callbacks.onclose of session n
OnClose(n) ==
    /\ transport[n] \in {"open", "closing", "failed"}
    /\ transport' = [transport EXCEPT ![n] = "closed"]
    /\ cleanup
    /\ justDisconnected' = FALSE
    /\ UNCHANGED <<sessionPromise, messages, currentTime, decoding, ended,
                   received, connectCalls, awaitingMic, closeQueued,
                   started, stopped, lastInterrupt>>
    /\ emitted' = {"onClose"}
    /\ heldAtReport' = FALSE
    /\ UNCHANGED <<captured, audioProcessPending, sent, disconnected, errors>>
    /\ UNCHANGED <<requestVars, activeStep>>

\* callbacks.onerror of session n
OnError(n) ==
    /\ transport[n] \in {"connecting", "open"}
    /\ transport' = [transport EXCEPT ![n] = "failed"]
    /\ cleanup
    /\ justDisconnected' = FALSE
    /\ UNCHANGED <<sessionPromise, messages, currentTime, decoding, ended,
                   received, connectCalls, awaitingMic, closeQueued,
                   started, stopped, lastInterrupt>>
    /\ reportError(n)
    /\ UNCHANGED <<captured, audioProcessPending, sent, disconnected>>
    /\ UNCHANGED requestVars

\* disconnect() that returns at once when the client is not connected
DisconnectWhenConnected ==
    /\ justDisconnected' = TRUE
    /\ IF isConnected
       THEN /\ cleanup
            /\ closeQueued' = IF sessionPromise = NULL THEN closeQueued
                              ELSE closeQueued \cup {sessionPromise}
       ELSE UNCHANGED <<isConnected, liveTracks, mediaStream, processor, source,
                        openContexts, inputAudioContext, outputAudioContext,
                        activeSources, nextStartTime, closeQueued, sendQueued>>
    /\ UNCHANGED <<sessionPromise, messages, currentTime, decoding, ended,
                   received, connectCalls, awaitingMic, transport,
                   started, stopped, lastInterrupt>>
    /\ disconnected' = TRUE
    /\ emitted' = {}
    /\ heldAtReport' = FALSE
    /\ UNCHANGED <<captured, audioProcessPending, sent, errors>>
    /\ UNCHANGED <<requestVars, activeStep>>

\* the body of disconnect()
disconnect ==
    /\ cleanup
    /\ closeQueued' = IF sessionPromise = NULL THEN closeQueued
                      ELSE closeQueued \cup {sessionPromise}
    /\ isConnected' = FALSE
    /\ justDisconnected' = TRUE
    /\ UNCHANGED <<sessionPromise, messages, currentTime, decoding, ended,
                   received, connectCalls, awaitingMic, transport,
                   started, stopped, lastInterrupt>>
    /\ disconnected' = TRUE
    /\ emitted' = {}
    /\ heldAtReport' = FALSE
    /\ UNCHANGED <<captured, audioProcessPending, sent, errors>>
    /\ UNCHANGED requestVars

\* disconnect()
Disconnect ==
    /\ disconnect
    /\ UNCHANGED activeStep

\* App.handleEndSession up to the await inside generateReport: the End button
\* of the session screen disconnects the client and starts the analysis.
HandleEndSession ==
    /\ activeStep = "session"
    /\ disconnect
    /\ activeStep' = "analyzing"

\* generateReport after its await: the report arrived, or the call failed
GenerateReportSettled(ok) ==
    /\ activeStep = "analyzing"
    /\ activeStep' = IF ok THEN "report" ELSE "setup"
    /\ justDisconnected' = FALSE
    /\ emitted' = {}
    /\ heldAtReport' = FALSE
    /\ UNCHANGED <<clientVars, messages, requestVars, envVars, started, stopped,
                   lastInterrupt, captureVars, sent, disconnected, errors>>

\* The reaction disconnect() put on the session promise: session.close().
SessionClose(n) ==
    /\ n \in closeQueued
    /\ transport[n] \in {"open", "closing", "closed"}
    /\ closeQueued' = closeQueued \ {n}
    /\ transport' = [transport EXCEPT ![n] = IF @ = "open" THEN "closing" ELSE @]
    /\ justDisconnected' = FALSE
    /\ UNCHANGED <<clientVars, messages, currentTime, decoding, ended, received,
                   connectCalls, awaitingMic, liveTracks, openContexts,
                   started, stopped, lastInterrupt>>
    /\ emitted' = {}
    /\ heldAtReport' = FALSE
    /\ UNCHANGED <<captureVars, sent, disconnected, errors>>
    /\ UNCHANGED <<requestVars, activeStep>>

\* The UI events that handleMessage(m) emits.
eventsOf(m) ==
    IF \/ IsPresent(m.outputTranscription)
       \/ IsPresent(m.inputTranscription)
       \/ m.turnComplete
    THEN {"onMessage"}
    ELSE {}

\* handleMessage(m): m is inbound message number Len(received) + 1.
HandleMessage(m) ==
    /\ \E n \in 1..MaxSessions : transport[n] = "open"
    /\ received' = Append(received, m)
    /\ messages' = routeTurnComplete(routeTranscription(messages, m), m)
    /\ SetPlayback(
           handleInterruption(
               handleAudio(Playback, outputAudioContext, Len(received) + 1, m),
               Len(received) + 1, m))
    /\ justDisconnected' = FALSE
    /\ UNCHANGED <<inputAudioContext, outputAudioContext, mediaStream, processor,
                   source, isConnected, sessionPromise, currentTime, ended,
                   connectCalls, awaitingMic, transport, closeQueued,
                   liveTracks, openContexts>>
    /\ emitted' = eventsOf(m)
    /\ heldAtReport' = FALSE
    /\ UNCHANGED <<captureVars, sent, disconnected, errors>>
    /\ UNCHANGED <<requestVars, activeStep>>

\* playAudioChunk resumes with the decoded buffer of chunk d.
DecodeResolved(d) ==
    /\ d \in decoding
    /\ d.decodes
    /\ IF outputAudioContext = NULL
       THEN SetPlayback([Playback EXCEPT !.decoding = @ \ {d}])
       ELSE SetPlayback(scheduleChunk(Playback, d, currentTime))
    /\ justDisconnected' = FALSE
    /\ UNCHANGED <<inputAudioContext, outputAudioContext, mediaStream, processor,
                   source, isConnected, sessionPromise, messages, currentTime,
                   ended, received, connectCalls, awaitingMic, transport,
                   closeQueued, liveTracks, openContexts>>
    /\ emitted' = {}
    /\ heldAtReport' = FALSE
    /\ UNCHANGED <<captureVars, sent, disconnected, errors>>
    /\ UNCHANGED <<requestVars, activeStep>>

\* a catch block that also resets the timeline
DecodeRejectedResetsTimeline(d) ==
    /\ d \in decoding
    /\ ~d.decodes
    /\ SetPlayback([Playback EXCEPT !.decoding = @ \ {d}, !.nextStartTime = 0])
    /\ justDisconnected' = FALSE
    /\ emitted' = {}
    /\ heldAtReport' = FALSE
    /\ UNCHANGED <<inputAudioContext, outputAudioContext, mediaStream, processor,
                   source, isConnected, sessionPromise, messages, currentTime,
                   ended, received, connectCalls, awaitingMic, transport,
                   closeQueued, liveTracks, openContexts,
                   captureVars, sent, disconnected, errors>>
    /\ UNCHANGED <<requestVars, activeStep>>

\* a catch block that treats the decode error as a failure of the session
DecodeRejectedReports(d) ==
    /\ d \in decoding
    /\ ~d.decodes
    /\ decoding' = decoding \ {d}
    /\ reportError(sessionPromise)
    /\ cleanup
    /\ justDisconnected' = FALSE
    /\ UNCHANGED <<sessionPromise, messages, currentTime, ended, received,
                   connectCalls, awaitingMic, transport, closeQueued,
                   started, stopped, lastInterrupt,
                   captured, audioProcessPending, sent, disconnected>>
    /\ UNCHANGED requestVars

\* playAudioChunk resumes with a decode error: the catch block drops the chunk.
DecodeRejected(d) ==
    /\ d \in decoding
    /\ ~d.decodes
    /\ SetPlayback([Playback EXCEPT !.decoding = @ \ {d}])
    /\ justDisconnected' = FALSE
    /\ UNCHANGED <<inputAudioContext, outputAudioContext, mediaStream, processor,
                   source, isConnected, sessionPromise, messages, currentTime,
                   ended, received, connectCalls, awaitingMic, transport,
                   closeQueued, liveTracks, openContexts>>
    /\ emitted' = {}
    /\ heldAtReport' = FALSE
    /\ UNCHANGED <<captureVars, sent, disconnected, errors>>
    /\ UNCHANGED <<requestVars, activeStep>>

\* an onended that flips the membership of its source in activeSources
SourceEndedToggles(i) ==
    /\ i \in 1..Len(started)
    /\ started[i].chunk \notin ended
    /\ \/ currentTime >= started[i].when + started[i].duration
       \/ \E s \in stopped : s.chunk = started[i].chunk
    /\ ended' = ended \cup {started[i].chunk}
    /\ activeSources' = IF started[i].chunk \in activeSources
                        THEN activeSources \ {started[i].chunk}
                        ELSE activeSources \cup {started[i].chunk}
    /\ justDisconnected' = FALSE
    /\ UNCHANGED <<inputAudioContext, outputAudioContext, mediaStream, processor,
                   source, nextStartTime, isConnected, sessionPromise, messages,
                   currentTime, decoding, received, connectCalls, awaitingMic,
                   transport, closeQueued, liveTracks, openContexts,
                   started, stopped, lastInterrupt>>
    /\ emitted' = {}
    /\ heldAtReport' = FALSE
    /\ UNCHANGED <<captureVars, sent, disconnected, errors>>
    /\ UNCHANGED <<requestVars, activeStep>>

\* source.onended of chunk c: it played to its end, or stop() was called on it.
SourceEnded(i) ==
    /\ i \in 1..Len(started)
    /\ started[i].chunk \notin ended
    /\ \/ currentTime >= started[i].when + started[i].duration
       \/ \E s \in stopped : s.chunk = started[i].chunk
    /\ ended' = ended \cup {started[i].chunk}
    /\ activeSources' = activeSources \ {started[i].chunk}
    /\ justDisconnected' = FALSE
    /\ UNCHANGED <<inputAudioContext, outputAudioContext, mediaStream, processor,
                   source, nextStartTime, isConnected, sessionPromise, messages,
                   currentTime, decoding, received, connectCalls, awaitingMic,
                   transport, closeQueued, liveTracks, openContexts,
                   started, stopped, lastInterrupt>>
    /\ emitted' = {}
    /\ heldAtReport' = FALSE
    /\ UNCHANGED <<captureVars, sent, disconnected, errors>>
    /\ UNCHANGED <<requestVars, activeStep>>

\* The clock of the output device advances.
AdvanceClock ==
    /\ outputAudioContext # NULL
    /\ currentTime < MaxClock
    /\ currentTime' = currentTime + 1
    /\ UNCHANGED <<clientVars, messages, decoding, ended, received, connectCalls,
                   awaitingMic, transport, closeQueued, liveTracks, openContexts,
                   historyVars>>
    /\ emitted' = {}
    /\ heldAtReport' = FALSE
    /\ UNCHANGED <<captureVars, sent, disconnected, errors>>
    /\ UNCHANGED <<requestVars, activeStep>>

\* The audio thread hands the capture node its next buffer: an audioprocess
\* event for frame number captured + 1 waits to be dispatched.
AudioProcessEvent ==
    /\ processor # NULL
    /\ audioProcessPending = 0
    /\ captured < MaxFrames
    /\ captured' = captured + 1
    /\ audioProcessPending' = captured + 1
    /\ justDisconnected' = FALSE
    /\ emitted' = {}
    /\ heldAtReport' = FALSE
    /\ UNCHANGED <<clientVars, messages, envVars, started, stopped, lastInterrupt,
                   sendQueued, sent, disconnected, errors>>
    /\ UNCHANGED <<requestVars, activeStep>>

\* processor.onaudioprocess: the frame is dropped when the client is not
\* connected; otherwise its amplitude goes to the UI and its send is put on
\* the session promise, where it runs at the end of this task when the
\* promise has resolved, and waits when it has not.
OnAudioProcess ==
    /\ audioProcessPending # 0
    /\ audioProcessPending' = 0
    /\ IF ~isConnected \/ sessionPromise = NULL
       THEN /\ emitted' = {}
            /\ UNCHANGED <<sendQueued, sent>>
       ELSE /\ emitted' = {"onAudioData"}
            /\ IF Resolved(sessionPromise)
               THEN /\ sent' = Append(sent, [frame |-> audioProcessPending,
                                             session |-> sessionPromise,
                                             cleaned |-> FALSE])
                    /\ UNCHANGED sendQueued
               ELSE /\ sendQueued' = Append(sendQueued,
                                            [frame |-> audioProcessPending,
                                             session |-> sessionPromise,
                                             cleaned |-> FALSE])
                    /\ UNCHANGED sent
    /\ justDisconnected' = FALSE
    /\ heldAtReport' = FALSE
    /\ UNCHANGED <<clientVars, messages, envVars, started, stopped, lastInterrupt,
                   captured, disconnected, errors>>
    /\ UNCHANGED <<requestVars, activeStep>>

\* --------------------------------------------------------- specifications
Next ==
    \/ connectCalls < MaxConnects /\ Connect(DefaultConfig)
    \/ \E n \in 1..MaxSessions : GetUserMediaResolved(n)
    \/ \E n \in 1..MaxSessions : GetUserMediaRejected(n)
    \/ \E n \in 1..MaxSessions : OnOpen(n)
    \/ \E n \in 1..MaxSessions : OnClose(n)
    \/ \E n \in 1..MaxSessions : OnError(n)
    \/ \E n \in 1..MaxSessions : SessionClose(n)
    \/ Disconnect
    \/ \E m \in ClientInputs : Len(received) < MaxTraffic /\ HandleMessage(m)
    \/ \E d \in decoding : DecodeResolved(d)
    \/ \E d \in decoding : DecodeRejected(d)
    \/ \E i \in 1..Len(started) : SourceEnded(i)
    \/ AdvanceClock
    \/ AudioProcessEvent
    \/ OnAudioProcess

\* the whole client, from construction
Spec == Init /\ [][Next]_vars

NextPlayback ==
    \/ \E m \in PlaybackInputs : Len(received) < MaxInbound /\ HandleMessage(m)
    \/ \E d \in decoding : DecodeResolved(d)
    \/ \E d \in decoding : DecodeRejected(d)
    \/ \E i \in 1..Len(started) : SourceEnded(i)
    \/ AdvanceClock
    \/ Disconnect

\* an open session receiving audio and interruptions
SpecPlayback == InitOpen /\ [][NextPlayback]_vars

NextTranscript ==
    \E m \in TranscriptInputs : Len(received) < MaxFragments /\ HandleMessage(m)

\* an open session receiving transcript fragments and turn-complete signals
SpecTranscript == InitOpen /\ [][NextTranscript]_vars

NextLifecycle ==
    \/ connectCalls < MaxConnects /\ Connect(DefaultConfig)
    \/ \E n \in 1..MaxSessions : GetUserMediaResolved(n)
    \/ \E n \in 1..MaxSessions : GetUserMediaRejected(n)
    \/ \E n \in 1..MaxSessions : OnOpen(n)
    \/ \E n \in 1..MaxSessions : OnClose(n)
    \/ \E n \in 1..MaxSessions : OnError(n)
    \/ \E n \in 1..MaxSessions : SessionClose(n)
    \/ Disconnect
    \/ \E m \in TrafficInputs : Len(received) < MaxTraffic /\ HandleMessage(m)
    \/ \E d \in decoding : DecodeResolved(d)

\* connect, disconnect and the transport callbacks, with the device clock at rest
SpecLifecycle == Init /\ [][NextLifecycle]_vars

NextCapture ==
    \/ Connect(DefaultConfig)
    \/ \E n \in 1..MaxSessions : GetUserMediaResolved(n)
    \/ \E n \in 1..MaxSessions : OnOpen(n)
    \/ Disconnect
    \/ AudioProcessEvent
    \/ OnAudioProcess

\* connect, disconnect and the capture node, with no inbound traffic
SpecCapture == Init /\ [][NextCapture]_vars

\* ------------------------------------------------------------ properties
\* the step is handleMessage of a new inbound message
Handled == Len(received') = Len(received) + 1
\* the message that the step handles
Inbound == received'[Len(received')]

Max(a, b) == IF a < b THEN b ELSE a

\* Chunk i of the start log is the first since the timeline was last reset.
\* No chunk is started after a disconnect without a new connect (the output
\* context is gone), so under SpecPlayback a run ends only at an interruption.
FirstOfRun(i) == i = 1 \/ started[i - 1].after # started[i].after

\* C1, as amended: within a run of chunks with no interruption between them
\* the start times never decrease, the first chunk starts at max(0, clock at
\* scheduling), and every later chunk starts at the end of the chunk scheduled
\* before it, or at the clock at its scheduling when the clock is already
\* past that end.
C1_GaplessOrCatchUp ==
    \A i \in 1..Len(started) :
        IF FirstOfRun(i)
        THEN started[i].when = Max(0, started[i].now)
        ELSE /\ started[i].when >= started[i - 1].when
             /\ started[i].when =
                    Max(started[i - 1].when + started[i - 1].duration, started[i].now)

\* C1, as claimed: every later chunk of a run starts exactly at the start of
\* the chunk before it plus that chunk's duration.
C1_AlwaysGapless ==
    \A i \in 1..Len(started) :
        IF FirstOfRun(i)
        THEN started[i].when = Max(0, started[i].now)
        ELSE /\ started[i].when >= started[i - 1].when
             /\ started[i].when = started[i - 1].when + started[i - 1].duration

\* C1, witness: a chunk was queued behind the one before it, ahead of the clock.
C1_Witness ==
    \E i \in 2..Len(started) :
        /\ ~FirstOfRun(i)
        /\ started[i].now < started[i].when
        /\ started[i].when = started[i - 1].when + started[i - 1].duration

\* C2: the step that handles a message with the interrupted flag calls stop on
\* every source that was in activeSources, leaves activeSources empty and
\* leaves nextStartTime at 0.
C2_InterruptionStopsAll ==
    [][(Handled /\ Inbound.interrupted) =>
          /\ \A c \in activeSources :
                 [chunk |-> c, by |-> Len(received')] \in stopped'
          /\ activeSources' = {}
          /\ nextStartTime' = 0]_vars

\* C2, witness: the last message handled was an interruption, and it stopped
\* two sources, one of them due to start later than the clock.
C2_Witness ==
    /\ lastInterrupt = Len(received)
    /\ activeSources = {} /\ nextStartTime = 0
    /\ \E i, j \in 1..Len(started) :
          /\ i # j
          /\ [chunk |-> started[i].chunk, by |-> lastInterrupt] \in stopped
          /\ [chunk |-> started[j].chunk, by |-> lastInterrupt] \in stopped
          /\ started[j].when > currentTime

\* C3: no chunk of a message received before an interruption is started (and
\* so added to activeSources) after that interruption was handled.
C3_NoStaleAudio ==
    \A i \in 1..Len(started) : started[i].chunk >= started[i].after

\* C4: the chunk of a message that carries audio and the interrupted flag is
\* not stopped by that message, and is scheduled only after that message's
\* interruption was applied.
C4_StopBeforeOwnAudio ==
    \A n \in 1..Len(received) :
        (received[n].interrupted /\ IsPresent(received[n].audio)) =>
            /\ [chunk |-> n, by |-> n] \notin stopped
            /\ \A i \in 1..Len(started) :
                   started[i].chunk = n => started[i].after >= n

\* C4, witness: a message with audio and the interrupted flag stopped an
\* earlier source, and its own chunk was scheduled afterwards.
C4_Witness ==
    \E n \in 1..Len(received) :
        /\ received[n].interrupted /\ IsPresent(received[n].audio)
        /\ \E s \in stopped : s.by = n
        /\ \E i \in 1..Len(started) : started[i].chunk = n /\ n \in activeSources

\* An inbound message with the given transcript fields and nothing else.
TranscriptMessage(out, in, turn) ==
    [outputTranscription |-> out, inputTranscription |-> in,
     turnComplete |-> turn, audio |-> Absent, interrupted |-> FALSE]

\* the step handles a message that carries a fragment and no turn-complete
HandledFragment ==
    /\ Handled
    /\ ~Inbound.turnComplete
    /\ IsPresent(Inbound.outputTranscription) \/ IsPresent(Inbound.inputTranscription)

\* the step handles a message that carries turn-complete and no fragment
HandledTurnComplete ==
    /\ Handled
    /\ Inbound.turnComplete
    /\ ~IsPresent(Inbound.outputTranscription)
    /\ ~IsPresent(Inbound.inputTranscription)

\* The fragment that handleMessage hands to onMessage for the message of the
\* step: its role and its text.
FragmentRole == IF IsPresent(Inbound.outputTranscription) THEN "model" ELSE "user"
FragmentText ==
    IF IsPresent(Inbound.outputTranscription)
    THEN ValueOf(Inbound.outputTranscription)
    ELSE ValueOf(Inbound.inputTranscription)

\* C5: user "he", user "llo", turn-complete, agent "hi" yield exactly the two
\* records {user, "hello", complete} and {agent, "hi", incomplete}.
C5_HelloThenHi ==
    received = << TranscriptMessage(Absent, Present("he"), FALSE),
                  TranscriptMessage(Absent, Present("llo"), FALSE),
                  TranscriptMessage(Absent, Absent, TRUE),
                  TranscriptMessage(Present("hi"), Absent, FALSE) >>
        => messages = << [role |-> "user", text |-> "hello", isComplete |-> TRUE],
                         [role |-> "model", text |-> "hi", isComplete |-> FALSE] >>

\* C6: a turn-complete signal that finds the last record unsealed marks it
\* complete, whatever its role, and appends no record.
C6_TurnCompleteSealsLast ==
    [][(/\ HandledTurnComplete
        /\ Len(messages) > 0
        /\ ~messages[Len(messages)].isComplete) =>
          /\ Len(messages') = Len(messages)
          /\ messages'[Len(messages)].isComplete]_vars

\* C7: a fragment that arrives while the last record has the other role and
\* is unsealed marks that record complete and opens a new record.
C7_RoleSwitchSeals ==
    [][(/\ HandledFragment
        /\ Len(messages) > 0
        /\ messages[Len(messages)].role # FragmentRole
        /\ ~messages[Len(messages)].isComplete) =>
          /\ Len(messages') = Len(messages) + 1
          /\ messages'[Len(messages)].isComplete]_vars

\* C8: a fragment of role R is appended to the text of the last record when
\* that record has role R and is unsealed, and the record count is unchanged;
\* otherwise exactly one new unsealed record of role R with that text is
\* appended.  No other record changes, so text of two roles is never merged.
C8_FragmentAppendsOrOpens ==
    [][HandledFragment =>
          LET n == Len(messages)
          IN  IF n > 0 /\ messages[n].role = FragmentRole /\ ~messages[n].isComplete
              THEN /\ Len(messages') = n
                   /\ messages'[n] =
                          [role |-> FragmentRole,
                           text |-> messages[n].text \o FragmentText,
                           isComplete |-> FALSE]
                   /\ \A i \in 1..(n - 1) : messages'[i] = messages[i]
              ELSE messages' =
                       Append(messages, [role |-> FragmentRole, text |-> FragmentText,
                                         isComplete |-> FALSE])]_vars

\* C8, witness: two fragments were merged into one record, and a fragment of
\* the other role opened the record after it.
C8_Witness ==
    /\ Len(messages) = 2
    /\ messages[1] = [role |-> "user", text |-> "hello", isComplete |-> FALSE]
    /\ messages[2] = [role |-> "model", text |-> "hi", isComplete |-> FALSE]

\* C9: a record that is complete keeps its place, role, text and flag in
\* every later state.
C9_SealedNeverMutated ==
    [][\A i \in 1..Len(messages) :
           messages[i].isComplete =>
               Len(messages') >= i /\ messages'[i] = messages[i]]_vars

\* C9, witness: a sealed record with text, followed by a record of the same
\* role that a later fragment opened.
C9_Witness ==
    \E i \in 1..(Len(messages) - 1) :
        /\ messages[i].isComplete
        /\ messages[i].text # ""
        /\ messages[i + 1].role = messages[i].role
        /\ messages[i + 1].text # ""

\* A connect() is in progress: it awaits the microphone, or the session it
\* requested has not reported open.
Connecting ==
    \/ awaitingMic # {}
    \/ \E n \in 1..MaxSessions : transport[n] = "connecting"

\* The client holds nothing and is not connected.
Closed ==
    /\ ~isConnected
    /\ mediaStream = NULL /\ processor = NULL /\ source = NULL
    /\ inputAudioContext = NULL /\ outputAudioContext = NULL
    /\ activeSources = {} /\ nextStartTime = 0
    /\ sessionPromise # NULL => sessionPromise \in closeQueued

\* C10: when disconnect() returns the client is closed and not connected,
\* whether it was never connected, connecting, open or already disconnected;
\* and a disconnect() directly after a disconnect() changes no field of the
\* client.
C10_DisconnectCloses ==
    /\ [](justDisconnected => Closed)
    /\ [][(justDisconnected /\ justDisconnected') => clientVars' = clientVars]_vars

\* C10, witness: disconnect() has just returned while a connect() is in progress.
C10_Witness == justDisconnected /\ Connecting /\ Closed

\* the events of the UI collaborator that C11 names
SessionEvents == {"onOpen", "onMessage", "onAudioData", "onError"}

\* C11: while disconnect() has returned and connect() has not been called
\* since, no step emits onOpen, onMessage, onAudioData or onError, and
\* isConnected is false.
C11_SilentAfterDisconnect ==
    disconnected => (emitted \cap SessionEvents = {} /\ ~isConnected)

\* the step is a call of connect()
ConnectCalled == connectCalls' = connectCalls + 1

\* C12: a connect() called while the client is open, or while an earlier
\* connect() is still in progress, creates no audio context, asks for no
\* microphone (and so requests no session) and changes no field of the client.
C12_ConnectIsNoOp ==
    [][(ConnectCalled /\ (isConnected \/ Connecting)) =>
          /\ openContexts' = openContexts
          /\ awaitingMic' = awaitingMic
          /\ clientVars' = clientVars]_vars

\* Session n was requested and has neither failed nor closed.
Live(n) == transport[n] \in {"connecting", "open", "closing"}

\* C13: at most one session is live.
C13_AtMostOneLive == Cardinality({n \in 1..MaxSessions : Live(n)}) <= 1

\* the step reports the failure of a connect(): events.onError is called for
\* a session that never opened (no microphone, or onerror while connecting)
ConnectFailureReported ==
    \E n \in 1..MaxSessions :
        /\ errors'[n] = errors[n] + 1
        /\ transport[n] \in {"none", "connecting"}

\* C14: when the failure of a connect() is reported, no track is live, no
\* context is open, no capture node is in use, the session is not open and
\* isConnected is false.
C14_ReleasedWhenReported ==
    [][ConnectFailureReported =>
          /\ ~heldAtReport'
          /\ ~isConnected
          /\ \A n \in 1..MaxSessions :
                 errors'[n] # errors[n] => transport'[n] # "open"]_vars

\* C15: a session has at most one onError; a microphone failure and a
\* transport error have exactly one; and a session that the remote side
\* closes while it is open (no session.close() was called on it) has exactly
\* one when its close is handled.
C15_FailureReportedOnce ==
    /\ [](\A n \in 1..MaxSessions :
              /\ errors[n] <= 1
              /\ transport[n] = "failed" => errors[n] = 1)
    /\ [][\A n \in 1..MaxSessions :
              (transport[n] = "open" /\ transport'[n] = "closed") =>
                  errors'[n] = 1]_vars

\* C16: no frame is handed to sendRealtimeInput after a cleanup (by
\* disconnect() or by a callback) ran while its send was waiting on the
\* session promise: a frame that is pending when the client leaves the open
\* state is dropped.
C16_PendingFrameDropped == \A i \in 1..Len(sent) : ~sent[i].cleaned

\* C17: sendRealtimeInput is called on the frames in the order in which they
\* were captured.
C17_SentInCaptureOrder ==
    \A i, j \in 1..Len(sent) : i < j => sent[i].frame < sent[j].frame

\* the step is the catch block of playAudioChunk: a pending decode fails
DecodeFails ==
    \E d \in decoding : ~d.decodes /\ decoding' = decoding \ {d}

\* message k carried an audio chunk that did not decode, and its
\* playAudioChunk has run to its end
Dropped(k) ==
    /\ IsPresent(received[k].audio)
    /\ ~ValueOf(received[k].audio).decodes
    /\ \A d \in decoding : d.chunk # k

\* Chunk i of the start log was scheduled next after chunk i - 1, and a
\* chunk received between the two was dropped.
Skips(i) ==
    /\ i > 1
    /\ ~FirstOfRun(i)
    /\ \E k \in (started[i - 1].chunk + 1)..(started[i].chunk - 1) : Dropped(k)

\* C18, as amended: the step in which a decode fails changes neither
\* nextStartTime nor activeSources, starts and stops no source and leaves
\* every other pending decode pending; and a chunk scheduled next after a
\* dropped one starts at the end of the chunk scheduled before it, or at the
\* clock at its scheduling when the clock is already past that end.
C18_DropsOnlyFailedChunk ==
    /\ [][DecodeFails =>
             /\ nextStartTime' = nextStartTime
             /\ activeSources' = activeSources
             /\ started' = started /\ stopped' = stopped
             /\ Cardinality(decoding') = Cardinality(decoding) - 1
             /\ outputAudioContext' = outputAudioContext]_vars
    /\ [](\A i \in 1..Len(started) :
              Skips(i) =>
                  started[i].when =
                      Max(started[i - 1].when + started[i - 1].duration,
                          started[i].now))

\* C18, as claimed: a chunk scheduled next after a dropped one starts exactly
\* at the start of the chunk scheduled before it plus that chunk's duration.
C18_GaplessAcrossDrop ==
    \A i \in 1..Len(started) :
        Skips(i) =>
            started[i].when = started[i - 1].when + started[i - 1].duration

\* C18, witness: chunk 2 of three was dropped while chunk 1 was playing, and
\* chunk 3 is queued behind chunk 1, ahead of the clock.
C18_Witness ==
    /\ Len(started) = 2
    /\ Skips(2)
    /\ started[2].now < started[2].when
    /\ started[2].when = started[1].when + started[1].duration
    /\ activeSources = {started[1].chunk, started[2].chunk}

\* C19: the step in which a decode fails calls no onError (and no other
\* handler of the UI), leaves isConnected and the session as they are, and
\* releases nothing that cleanup() would release.
C19_DecodeFailureIsLocal ==
    [][DecodeFails =>
          /\ errors' = errors
          /\ emitted' = {}
          /\ isConnected' = isConnected
          /\ transport' = transport
          /\ sessionPromise' = sessionPromise
          /\ <<inputAudioContext', outputAudioContext', mediaStream',
               processor', source'>> =
             <<inputAudioContext, outputAudioContext, mediaStream,
               processor, source>>
          /\ liveTracks' = liveTracks /\ openContexts' = openContexts]_vars

\* C19, witness: a chunk was dropped, and the session is open with its
\* devices, with no error reported, while an earlier chunk plays on.
C19_Witness ==
    /\ \E k \in 1..Len(received) : Dropped(k)
    /\ isConnected /\ transport[1] = "open"
    /\ \A n \in 1..MaxSessions : errors[n] = 0
    /\ outputAudioContext # NULL /\ mediaStream \in liveTracks
    /\ activeSources # {}

\* C20: once the session is closed by disconnect() or cleanup() (the client
\* is not connected and holds no output context), every source that was
\* started has ended or had stop() called on it.
C20_NoOrphanSource ==
    (~isConnected /\ outputAudioContext = NULL) =>
        \A i \in 1..Len(started) :
            \/ started[i].chunk \in ended
            \/ \E s \in stopped : s.chunk = started[i].chunk

\* the step runs cleanup(): the session is torn down
TornDown == ~isConnected' /\ outputAudioContext' = NULL /\ activeSources' = {}

\* C21: a step that lowers nextStartTime lowers it to 0, and is the step that
\* handles an interrupted message or a step that tears the session down.
C21_TimelineMonotone ==
    [][nextStartTime' < nextStartTime =>
          /\ nextStartTime' = 0
          /\ (Handled /\ Inbound.interrupted) \/ TornDown]_vars

\* C21, witness: the timeline was reset by an interruption after a chunk had
\* advanced it, and a chunk scheduled since has advanced it again.
C21_Witness ==
    /\ lastInterrupt > 0
    /\ \E s \in stopped : s.by = lastInterrupt
    /\ \E i \in 1..Len(started) :
          /\ started[i].after = lastInterrupt
          /\ nextStartTime = started[i].when + started[i].duration
          /\ nextStartTime > 0

\* the transcript after both fragments of the message of the step were
\* routed, the agent's first or the user's first, and then its turn-complete
BothRouted ==
    LET out == ValueOf(Inbound.outputTranscription)
        in == ValueOf(Inbound.inputTranscription)
    IN  {routeTurnComplete(
             onMessage(onMessage(messages, out, FALSE, FALSE), in, TRUE, FALSE),
             Inbound),
         routeTurnComplete(
             onMessage(onMessage(messages, in, TRUE, FALSE), out, FALSE, FALSE),
             Inbound)}

\* C22: a message that carries an input-transcription fragment and an
\* output-transcription fragment routes both, one as a user fragment and one
\* as an agent fragment, before its turn-complete is applied.
C22_RoutesBothFragments ==
    [][(/\ Handled
        /\ IsPresent(Inbound.outputTranscription)
        /\ IsPresent(Inbound.inputTranscription)) =>
          messages' \in BothRouted]_vars

\* ------------------------------------------------- instruction properties
\* The client with every config the setup screen or another caller can pass.
NextInstruction ==
    \/ \E config \in Configs : connectCalls < MaxConnects /\ Connect(config)
    \/ \E n \in 1..MaxSessions : GetUserMediaResolved(n)
    \/ \E n \in 1..MaxSessions : OnOpen(n)
    \/ Disconnect

SpecInstruction == Init /\ [][NextInstruction]_vars

Contains(instruction, fragment) ==
    \E i \in 1..Len(instruction) : instruction[i] = fragment

\* the sessions that have asked the transport for a connection
Requested == {n \in 1..MaxSessions : instructionOf[n] # <<>>}

SpecificScenarios == {"RESTAURANT", "DIRECTIONS", "INTERVIEW"}

FragmentOf ==
    [s \in SpecificScenarios |->
        IF s = "RESTAURANT" THEN "You are a waiter"
        ELSE IF s = "DIRECTIONS" THEN "You are a friendly local"
        ELSE "You are a hiring manager"]

\* C23: in roleplay mode the instruction sent holds the fragment of the
\* configured scenario and no other scenario's, holds the default fragment
\* exactly when the scenario is left out or is None, and always holds the
\* stay-in-character directive.
C23_RoleplayInstruction ==
    \A n \in Requested :
        LET config == ValueOf(configOf[n])
            instruction == instructionOf[n]
        IN config.mode = "ROLEPLAY" =>
              /\ \A s \in SpecificScenarios :
                    Contains(instruction, FragmentOf[s]) <=> config.scenario = s
              /\ Contains(instruction, "Pick a common real-world scenario")
                    <=> config.scenario \in {Unspecified, "NONE"}
              /\ Contains(instruction, "Stay in character at all times")

C23_Witness ==
    \E n, k \in Requested :
        /\ ValueOf(configOf[n]).mode = "ROLEPLAY"
        /\ ValueOf(configOf[n]).scenario = "RESTAURANT"
        /\ Contains(instructionOf[n], "You are a waiter")
        /\ ValueOf(configOf[k]).mode = "ROLEPLAY"
        /\ ValueOf(configOf[k]).scenario = "NONE"
        /\ Contains(instructionOf[k], "Pick a common real-world scenario")

\* C24: the instruction is determined by the config alone, and outside
\* roleplay mode by the mode alone: two connects in the same one of the drill
\* and free-talk modes send the same instruction whatever their scenarios.
C24_ScenarioOnlyInRoleplay ==
    \A n, k \in Requested :
        LET a == ValueOf(configOf[n])
            b == ValueOf(configOf[k])
        IN /\ a = b => instructionOf[n] = instructionOf[k]
           /\ (a.mode = b.mode /\ a.mode \in {"PRONUNCIATION", "FREE_TALK"})
                 => instructionOf[n] = instructionOf[k]

C24_Witness ==
    \E n, k \in Requested :
        /\ ValueOf(configOf[n]).mode = "FREE_TALK"
        /\ ValueOf(configOf[k]).mode = "FREE_TALK"
        /\ ValueOf(configOf[n]).scenario = "RESTAURANT"
        /\ ValueOf(configOf[k]).scenario = "INTERVIEW"
        /\ instructionOf[n] = instructionOf[k]

\* C25: at the return of disconnect() no microphone track is live, no audio
\* context is open, the processor and the source are released, and every
\* transport session that is not closed has its close() called on a session
\* that exists.
C25_ReleasedOnReturn ==
    justDisconnected =>
        /\ ~Held
        /\ \A n \in 1..MaxSessions :
              transport[n] \in {"connecting", "open"} =>
                  n \in closeQueued /\ Resolved(n)

\* ----------------------------------------------------- report properties
\* One session of App: handleStartSession connects the client it constructed
\* before the session screen is drawn, transcripts arrive, and the End button
\* of that screen starts the analysis.
NextApp ==
    \/ connectCalls = 0 /\ Connect(DefaultConfig)
    \/ \E n \in 1..MaxSessions : GetUserMediaResolved(n)
    \/ \E n \in 1..MaxSessions : OnOpen(n)
    \/ \E m \in TranscriptInputs : Len(received) < MaxInbound /\ HandleMessage(m)
    \/ connectCalls > 0 /\ HandleEndSession
    \/ \E n \in 1..MaxSessions : SessionClose(n)
    \/ \E n \in 1..MaxSessions : OnClose(n)
    \/ \E ok \in BOOLEAN : GenerateReportSettled(ok)

SpecApp == Init /\ [][NextApp]_vars

\* C26: from the step that starts the analysis to its end the client is not
\* connected and the message sequence does not change.
C26_QuietDuringAnalysis ==
    [][activeStep' = "analyzing" =>
          /\ ~isConnected'
          /\ activeStep = "analyzing" => messages' = messages]_vars

\* C27: the frames accepted for sending and still waiting on the session
\* promise stay below the number of frames the capture node delivers: however
\* many frames are captured while the sender cannot send, at least one of them
\* is dropped.
C27_BacklogBounded == Len(sendQueued) < MaxFrames

\* the step schedules a chunk
Scheduled == Len(started') = Len(started) + 1
\* the chunk that the step schedules
Newest == started'[Len(started')]

\* C28: a chunk is started at the clock when nextStartTime is behind the
\* clock and at nextStartTime otherwise, never before the clock; after the
\* step nextStartTime is that start plus the chunk's duration and the chunk's
\* source is in activeSources.
C28_ScheduledAtOrAfterClock ==
    [][Scheduled =>
          /\ Newest.when >= currentTime
          /\ Newest.when =
                 IF nextStartTime < currentTime THEN currentTime ELSE nextStartTime
          /\ nextStartTime' = Newest.when + Newest.duration
          /\ Newest.chunk \in activeSources']_vars

\* C28, witness: one chunk was started at the clock, which had passed the end
\* of the chunk before it, and the next chunk was queued behind it.
C28_Witness ==
    \E i \in 2..(Len(started) - 1) :
        /\ started[i - 1].after = started[i].after
        /\ started[i - 1].when + started[i - 1].duration < started[i].now
        /\ started[i].when = started[i].now
        /\ started[i + 1].after = started[i].after
        /\ started[i + 1].when > started[i + 1].now
        /\ started[i + 1].chunk \in activeSources

\* C29: a completion callback removes its own source from activeSources and
\* changes nothing else of the client or of App: no other source leaves or
\* enters the set, and a source that an interruption or a teardown already
\* removed is not added again.
C29_CompletionRemovesOnlyItself ==
    [][ended' # ended =>
          \E c \in ended' \ ended :
              /\ ended' = ended \cup {c}
              /\ activeSources' = activeSources \ {c}
              /\ UNCHANGED <<inputAudioContext, outputAudioContext, mediaStream,
                             processor, source, nextStartTime, isConnected,
                             sessionPromise, messages, decoding, started,
                             stopped>>]_vars

\* C29, witness: a source that an interruption stopped and cleared from the
\* set has completed since, while a source scheduled after the interruption
\* is the one member of the set.
C29_Witness ==
    \E i, j \in 1..Len(started) :
        /\ started[i].chunk \in ended
        /\ \E s \in stopped : s.chunk = started[i].chunk /\ s.by > 0
        /\ started[j].after > started[i].after
        /\ activeSources = {started[j].chunk}

\* C30: chunks are placed on the timeline in the order in which their
\* messages were received: of two chunks that were both scheduled with no
\* interruption handled between their schedulings, the one received first
\* does not start later than the other.
C30_ScheduledInReceiveOrder ==
    \A i, j \in 1..Len(started) :
        (started[i].chunk < started[j].chunk /\ started[i].after = started[j].after)
            => started[i].when <= started[j].when

\* C31: whenever the client is connected its capture and playback resources
\* exist: the microphone stream and both audio contexts are set.
C31_ConnectedHoldsResources ==
    isConnected =>
        /\ mediaStream # NULL
        /\ inputAudioContext # NULL
        /\ outputAudioContext # NULL

====
